---- MODULE Spec2Model ----
(***************************************************************************)
(* Model of the memory subsystem of nbn-agentic-ai-memory-rag:             *)
(*   - UtilityRAG (src/rag.py): one store of (text, embedding, date)       *)
(*     records with add_memories, retrieve_memories, save_to_file and      *)
(*     load_from_file;                                                     *)
(*   - LMRRAG (src/rag.py): three UtilityRAG layers persisted as three     *)
(*     blobs of one directory;                                             *)
(*   - Agent.reflect (src/agents.py): the per-session reflection pipeline  *)
(*     with its resume check, run by the session loop of src/main.py.      *)
(*   - GPT4O.call (src/llm.py): the retry loop around the text-generation  *)
(*     service.                                                            *)
(* Five specifications share the operators that model the code:            *)
(*   SpecStore    one UtilityRAG under add_memories / retrieve_memories,   *)
(*   SpecFile     one UtilityRAG and one blob under add, retrieve, save    *)
(*                and load,                                                *)
(*   SpecLayered  one LMRRAG and one snapshot directory under add, save,   *)
(*                load and process interruption,                           *)
(*   Spec         Agent.reflect inside the session loop, with              *)
(*                interruption and restart of the process,                 *)
(*   SpecCall     one GPT4O.call after the other, the service failing or   *)
(*                answering at every attempt.                              *)
(***************************************************************************)
EXTENDS Integers, Sequences, FiniteSets, TLC

VARIABLES
    store,      \* SpecStore: the UtilityRAG under test
    call,       \* SpecStore: the last call made on it and what it returned
    blob,       \* SpecFile: the file the store is saved to and loaded from
    gpt,        \* SpecCall: the running GPT4O.call, its arguments and what it did
    lm,         \* SpecLayered: the LMRRAG of the running process (three stores)
    dir,        \* SpecLayered: the snapshot directory, one blob per layer
    lpc,        \* SpecLayered: where LMRRAG.save_to_file stands
    lcall,      \* SpecLayered: the last LMRRAG call and what it returned
    written,    \* SpecLayered (history): per blob, the store a completed dump wrote
    loadedDir,  \* SpecLayered (history): the directory as the last call, a
                \* successful load, found it
    pc,         \* Spec: the step of the session loop / of Agent.reflect that is next
    session,    \* Spec: index of the session the loop is at
    rag,        \* Spec: the agent's self_rag and counterpart_rag
    desc,       \* Spec: the agent's description attributes
    snap,       \* Spec: per session and LMRRAG, the snapshot directory on disk
    refFiles,   \* Spec: per session, the description and transcript files on disk
    loaded,     \* Spec: self_loaded and counter_loaded of the running reflect
    local,      \* Spec: locals of the running reflect
    cnt,        \* Spec (history): calls and writes made by the running reflect
    persistDone,\* Spec (history): sessions whose PERSIST wrote all six blobs
    restarts,   \* Spec (history): times the process was started again
    err         \* Spec: the exception that ended the process, "none" while it runs

storeVars == <<store, call>>

fileVars == <<blob>>

callVars == <<gpt>>

layeredVars == <<lm, dir, lpc, lcall, written, loadedDir>>

agentVars == <<pc, session, rag, desc, snap, refFiles, loaded, local, cnt,
               persistDone, restarts, err>>

vars == <<storeVars, fileVars, callVars, layeredVars, agentVars>>

\* what the steps of one specification leave alone: the variables of the others
notStore == <<fileVars, callVars, layeredVars, agentVars>>

notFile == <<callVars, layeredVars, agentVars>>

notCall == <<storeVars, fileVars, layeredVars, agentVars>>

notLayered == <<storeVars, fileVars, callVars, agentVars>>

notAgent == <<storeVars, fileVars, callVars, layeredVars>>

(***************************************************************************)
(* Bounds of the model.                                                    *)
(***************************************************************************)
MaxLen == 2         \* records a store of SpecStore may hold
MaxBatch == 2       \* length of the texts / dates lists of one add_memories call
MaxDate == 1        \* dates (timestamps) of SpecStore range over 0..MaxDate
MaxArg == 3         \* n and k of retrieve_memories range over 0..MaxArg
MaxLayerLen == 1    \* records one layer of SpecLayered may hold

(***************************************************************************)
(* Sequence helpers.                                                       *)
(***************************************************************************)
Range(s) == {s[i] : i \in 1..Len(s)}

Min(a, b) == IF a < b THEN a ELSE b

Max(a, b) == IF a > b THEN a ELSE b

Reverse(s) == [i \in 1..Len(s) |-> s[Len(s) + 1 - i]]

\* the sequences over S of length 0..n
SeqsUpTo(S, n) == UNION {[1..m -> S] : m \in 0..n}

\* the position of x in the duplicate-free sequence s (0 when absent)
Pos(s, x) == IF x \in Range(s) THEN CHOOSE i \in 1..Len(s) : s[i] = x ELSE 0

\* Python s[-k:]: the last k elements; s[-0:] is s[0:], the whole list; for a
\* negative k it is s[|k|:], the list without its first |k| elements.
PySuffix(s, k) ==
    IF k = 0 THEN s
    ELSE IF k > 0 THEN SubSeq(s, Max(Len(s) - k, 0) + 1, Len(s))
    ELSE SubSeq(s, Min(0 - k, Len(s)) + 1, Len(s))

\* Python s[:n]: the first n elements; for a negative n the list without its
\* last |n| elements.
PyPrefix(s, n) ==
    IF n >= 0 THEN SubSeq(s, 1, Min(n, Len(s)))
    ELSE SubSeq(s, 1, Max(Len(s) + n, 0))

(***************************************************************************)
(* The embedder: a pure function text -> vector (Embedding.embed).  The    *)
(* vectors are small integer vectors: "z" embeds to the zero vector, "d"   *)
(* has a negative cosine to "a".  Two records of one text are equally      *)
(* similar to every query.                                                 *)
(***************************************************************************)
Texts == {"a", "d", "z"}

Embed(text) ==
    CASE text = "a" -> <<1, 0>>
      [] text = "d" -> <<0 - 1, 1>>
      [] OTHER      -> <<0, 0>>

Dot(u, v) == u[1] * v[1] + u[2] * v[2]

\* the square of np.linalg.norm
NormSq(u) == Dot(u, u)

(***************************************************************************)
(* Cosine similarity, rag.py:132-134: dot(e, q) / (norm(e) * norm(q)).     *)
(* The value d / sqrt(m) is kept exactly as the pair (sign(d) * d^2, m),   *)
(* which orders as the quotient does.  A zero norm makes the quotient 0/0, *)
(* which numpy evaluates to NaN (a warning, no exception).                 *)
(***************************************************************************)
Similarity(e, q) ==
    LET d == Dot(e, q)
        m == NormSq(e) * NormSq(q)
    IN  IF m = 0 THEN [nan |-> TRUE, num |-> 0, den |-> 0]
        ELSE [nan |-> FALSE, num |-> IF d < 0 THEN 0 - d * d ELSE d * d, den |-> m]

\* the order np.argsort sorts by: numbers ascending, NaN after every number
SimLess(s1, s2) ==
    /\ ~s1.nan
    /\ (s2.nan \/ s1.num * s2.den < s2.num * s1.den)

SimEqual(s1, s2) == ~SimLess(s1, s2) /\ ~SimLess(s2, s1)

(***************************************************************************)
(* UtilityRAG (rag.py:86-194).                                             *)
(***************************************************************************)
\* UtilityRAG.__init__
EmptyStore == [memories |-> <<>>, memory_embeddings |-> <<>>, memory_dates |-> <<>>]

StoreLen(st) == Len(st.memories)

\* zip(texts, dates): pairs up to the shorter of the two lists
Zip(texts, dates) ==
    [i \in 1..Min(Len(texts), Len(dates)) |-> <<texts[i], dates[i]>>]

\* the body of the loop of add_memories: embed, then three appends
\* the record put in front of the lists instead of at their end
AppendMemory_Prepend(st, text, date) ==
    [memories          |-> <<text>> \o st.memories,
     memory_embeddings |-> <<Embed(text)>> \o st.memory_embeddings,
     memory_dates      |-> <<date>> \o st.memory_dates]

AppendMemory(st, text, date) ==
    [memories          |-> Append(st.memories, text),
     memory_embeddings |-> Append(st.memory_embeddings, Embed(text)),
     memory_dates      |-> Append(st.memory_dates, date)]

RECURSIVE AddPairs(_, _)
AddPairs(st, pairs) ==
    IF pairs = <<>> THEN st
    ELSE AddPairs(AppendMemory(st, pairs[1][1], pairs[1][2]), Tail(pairs))

\* UtilityRAG.add_memories: no length check, the loop runs over zip(texts, dates)
AddMemories(st, texts, dates) == AddPairs(st, Zip(texts, dates))

\* attempts OpenAIEmbedding.embed makes before it gives up (stop_after_attempt)
EmbedAttempts == 5

\* embed returns if the service fails on fewer attempts than the budget
EmbedSucceeds(fails) == fails < EmbedAttempts

\* add_memories that appends the text to memories before it embeds it
AddMemoriesUntil_AppendFirst(st, texts, dates, failAt, fails) ==
    LET pairs == Zip(texts, dates)
        raised == failAt > 0 /\ ~EmbedSucceeds(fails)
    IN  [st |-> AddPairs(st, IF raised THEN SubSeq(pairs, 1, failAt) ELSE pairs),
         raised |-> IF raised THEN "EmbeddingError" ELSE "none"]

\* add_memories when the service fails `fails` times in a row on the text of
\* pair failAt: embed raises once its attempts are used up, the exception
\* leaves the loop, and the pairs before failAt stay appended
AddMemoriesUntil(st, texts, dates, failAt, fails) ==
    LET pairs == Zip(texts, dates)
        raised == failAt > 0 /\ ~EmbedSucceeds(fails)
    IN  [st |-> IF raised THEN AddPairs(st, SubSeq(pairs, 1, failAt - 1))
                ELSE AddMemories(st, texts, dates),
         raised |-> IF raised THEN "EmbeddingError" ELSE "none"]

\* the similarities array of retrieve_memories
Similarities(st, query) ==
    [i \in 1..StoreLen(st) |-> Similarity(st.memory_embeddings[i], Embed(query))]

Perms(n) == {p \in [1..n -> 1..n] : \A i, j \in 1..n : i # j => p[i] # p[j]}

\* np.argsort(similarities), default kind (quicksort: not stable): any
\* permutation of the indices that puts the similarities in ascending order
IsArgsort(p, sims) ==
    \A i, j \in 1..Len(sims) : i < j => ~SimLess(sims[p[j]], sims[p[i]])

Argsorts(sims) == {p \in Perms(Len(sims)) : IsArgsort(p, sims)}

\* (mutant of TopKIndices) the reversal [::-1] forgotten
TopKIndices_NoReverse(order, k) == PySuffix(order, k)

\* (mutant of TopKIndices) [:k] for [-k:]: the k first of the ascending order
TopKIndices_Head(order, k) == Reverse(SubSeq(order, 1, Min(Max(k, 0), Len(order))))

\* np.argsort(similarities)[-k:][::-1] - the k last of the ascending order,
\* reversed: the candidate ranking, most similar first
TopKIndices(order, k) == Reverse(PySuffix(order, k))

\* one insertion of Python's stable sort with reverse=True: i goes behind every
\* element whose date is not smaller, so equal dates keep their order
InsertByDateDesc(sorted, i, dates) ==
    LET ahead == Cardinality({x \in 1..Len(sorted) : dates[sorted[x]] >= dates[i]})
    IN  SubSeq(sorted, 1, ahead) \o <<i>> \o SubSeq(sorted, ahead + 1, Len(sorted))

RECURSIVE SortDesc(_, _, _)
SortDesc(sorted, rest, dates) ==
    IF rest = <<>> THEN sorted
    ELSE SortDesc(InsertByDateDesc(sorted, rest[1], dates), Tail(rest), dates)

\* (mutant of SortedByDateDesc) reverse=True forgotten: oldest first
SortedByDateDesc_Ascending(cand, dates) == Reverse(SortDesc(<<>>, cand, dates))

\* (mutant of SortedByDateDesc) sorted(...)[::-1] for reverse=True: the dates
\* descend but equal dates come out in reversed order
SortedByDateDesc_Unstable(cand, dates) ==
    Reverse(SortDesc(<<>>, cand, [i \in DOMAIN dates |-> 0 - dates[i]]))

\* sorted(top_k_indices, key=lambda i: self.memory_dates[i], reverse=True)
SortedByDateDesc(cand, dates) == SortDesc(<<>>, cand, dates)

\* sorted(...)[:n]
TopNIndices(cand, dates, n) == PyPrefix(SortedByDateDesc(cand, dates), n)

\* retrieve_memories that answers an empty store with the query itself
RetrieveMemories_EchoOnEmpty(st, query, n, k, order) ==
    LET top_k_indices == TopKIndices(order, k)
        top_n_indices == TopNIndices(top_k_indices, st.memory_dates, n)
    IN  [cand   |-> top_k_indices,
         idx    |-> top_n_indices,
         result |-> IF st.memories = <<>> THEN <<[text |-> query]>>
                    ELSE [i \in 1..Len(top_n_indices) |->
                             [text |-> st.memories[top_n_indices[i]]]]]

\* UtilityRAG.retrieve_memories(query, n, k) with `order` the outcome of
\* np.argsort: the candidate ranking, the indices returned and their texts.
\* An empty store returns [] before anything is computed.
RetrieveMemories(st, query, n, k, order) ==
    IF st.memories = <<>> THEN [cand |-> <<>>, idx |-> <<>>, result |-> <<>>]
    ELSE LET top_k_indices == TopKIndices(order, k)
             top_n_indices == TopNIndices(top_k_indices, st.memory_dates, n)
         IN  [cand   |-> top_k_indices,
              idx    |-> top_n_indices,
              result |-> [i \in 1..Len(top_n_indices) |->
                             [text |-> st.memories[top_n_indices[i]]]]]

(***************************************************************************)
(* Persistence of one store, rag.py:157-182.  A file is missing, truncated *)
(* (opened for writing and not yet, or not completely, dumped: pickle.load *)
(* raises on it) or a pickle.  The pickle of save_to_file is a dict of     *)
(* three keys, kept as its (key, value) items.                             *)
(***************************************************************************)
MissingBlob == [kind |-> "missing", items |-> <<>>]

TruncatedBlob == [kind |-> "truncated", items |-> <<>>]

\* pickle.dump({'memories': ..., 'memory_embeddings': ..., 'memory_dates': ...}, f)
Pickle(st) ==
    [kind  |-> "pickle",
     items |-> << <<"memories", st.memories>>,
                  <<"memory_embeddings", st.memory_embeddings>>,
                  <<"memory_dates", st.memory_dates>> >>]

\* data[key] of the unpickled dict
DictGet(items, key) == items[CHOOSE i \in 1..Len(items) : items[i][1] = key][2]

\* (mutant of LoadFromFile) the loaded lists extend the lists in memory
LoadFromFile_Append(st, b) ==
    IF b.kind # "pickle" THEN [raised |-> TRUE, st |-> st, embeds |-> 0]
    ELSE [raised |-> FALSE, embeds |-> 0,
          st |-> [memories          |-> st.memories \o DictGet(b.items, "memories"),
                  memory_embeddings |-> st.memory_embeddings
                                            \o DictGet(b.items, "memory_embeddings"),
                  memory_dates      |-> st.memory_dates
                                            \o DictGet(b.items, "memory_dates")]]

\* key in data
HasKey(items, key) == \E i \in 1..Len(items) : items[i][1] = key

\* UtilityRAG.load_from_file: open() raises on a missing file and pickle.load on
\* a truncated one, before anything is assigned; otherwise the three lists are
\* replaced by the pickled ones, one assignment after the other, and a key
\* the dict does not have raises KeyError after the assignments before it.
\* The embedder is not called.
LoadFromFile(st, b) ==
    LET s1 == [st EXCEPT !.memories = DictGet(b.items, "memories")]
        s2 == [s1 EXCEPT !.memory_embeddings = DictGet(b.items, "memory_embeddings")]
        s3 == [s2 EXCEPT !.memory_dates = DictGet(b.items, "memory_dates")]
    IN  IF b.kind # "pickle" THEN [raised |-> TRUE, st |-> st, embeds |-> 0]
        ELSE IF ~HasKey(b.items, "memories")
            THEN [raised |-> TRUE, st |-> st, embeds |-> 0]
        ELSE IF ~HasKey(b.items, "memory_embeddings")
            THEN [raised |-> TRUE, st |-> s1, embeds |-> 0]
        ELSE IF ~HasKey(b.items, "memory_dates")
            THEN [raised |-> TRUE, st |-> s2, embeds |-> 0]
        ELSE [raised |-> FALSE, st |-> s3, embeds |-> 0]

(***************************************************************************)
(* LMRRAG (rag.py:196-286).                                                *)
(***************************************************************************)
\* the layers in the order save_to_file and load_from_file go through them
Layers == <<"facts", "reflections", "deep_reflections">>

LayerSet == Range(Layers)

\* LMRRAG.__init__: three empty stores
EmptyLMRRAG == [l \in LayerSet |-> EmptyStore]

\* a freshly made (empty) directory
EmptyDir == [l \in LayerSet |-> MissingBlob]

\* every add call sent to the facts store
AddToLayer_Facts(l, layer, texts, dates) ==
    [l EXCEPT !["facts"] = AddMemories(l["facts"], texts, dates)]

\* add_facts / add_reflections / add_deep_reflections: the call goes to the
\* store of that layer
AddToLayer(l, layer, texts, dates) ==
    [l EXCEPT ![layer] = AddMemories(l[layer], texts, dates)]

\* (mutant of SavedStore) reflections and deep reflections written to each
\* other's file
SavedStore_Swapped(l, layer) ==
    IF layer = "reflections" THEN l["deep_reflections"]
    ELSE IF layer = "deep_reflections" THEN l["reflections"]
    ELSE l[layer]

\* (mutant of SavedStore) the last record of the store left out of the file
SavedStore_WithoutLast(l, layer) ==
    LET n == Max(0, StoreLen(l[layer]) - 1)
    IN  [memories          |-> SubSeq(l[layer].memories, 1, n),
         memory_embeddings |-> SubSeq(l[layer].memory_embeddings, 1, n),
         memory_dates      |-> SubSeq(l[layer].memory_dates, 1, n)]

\* the store LMRRAG.save_to_file writes to <layer>.pkl
SavedStore(l, layer) == l[layer]

\* LMRRAG.load_from_file: the three loads in order inside one try; the first
\* exception ends it with False, the layers loaded before it stay loaded.
\* `loaded` is the set of layers whose load succeeded.
LoadLayers(l, d) ==
    LET f == LoadFromFile(l["facts"], d["facts"])
        r == LoadFromFile(l["reflections"], d["reflections"])
        q == LoadFromFile(l["deep_reflections"], d["deep_reflections"])
        l1 == [l EXCEPT !["facts"] = f.st]
        l2 == [l1 EXCEPT !["reflections"] = r.st]
        l3 == [l2 EXCEPT !["deep_reflections"] = q.st]
    IN  IF f.raised THEN [ok |-> FALSE, lm |-> l, loaded |-> {}, embeds |-> 0]
        ELSE IF r.raised
            THEN [ok |-> FALSE, lm |-> l1, loaded |-> {"facts"}, embeds |-> f.embeds]
        ELSE IF q.raised
            THEN [ok |-> FALSE, lm |-> l2, loaded |-> {"facts", "reflections"},
                  embeds |-> f.embeds + r.embeds]
        ELSE [ok |-> TRUE, lm |-> l3, loaded |-> LayerSet,
              embeds |-> f.embeds + r.embeds + q.embeds]

(***************************************************************************)
(* SpecStore: one UtilityRAG, any sequence of add_memories and             *)
(* retrieve_memories calls, one at a time.  `call` holds the call just     *)
(* made - its arguments and, for a retrieval, the candidate ranking and    *)
(* the result - until the caller takes the result (StoreReturn).           *)
(***************************************************************************)
Dates == 0..MaxDate

Args == 0..MaxArg

NoCall ==
    [op |-> "none", texts |-> <<>>, dates |-> <<>>, raised |-> "none",
     failAt |-> 0, pre |-> EmptyStore,
     query |-> "", n |-> 0, k |-> 0, cand |-> <<>>, idx |-> <<>>, result |-> <<>>]

StoreInit ==
    /\ store = EmptyStore
    /\ call = NoCall

\* store.add_memories(texts, dates), the two lists of any lengths; the
\* service may fail `fails` times in a row on the text at position at
\* (at = 0: it fails on none).  call.failAt is the position of the text on
\* which the embedder gave up, 0 if it gave up on none.
StoreAdd ==
    /\ call.op = "none"
    /\ \E texts \in SeqsUpTo(Texts, MaxBatch), dates \in SeqsUpTo(Dates, MaxBatch) :
        \E at \in 0..Min(Len(texts), Len(dates)),
           fails \in {EmbedAttempts - 1, EmbedAttempts} :
            /\ at = 0 => fails = EmbedAttempts
            /\ LET r == AddMemoriesUntil(store, texts, dates, at, fails)
                   failAt == IF EmbedSucceeds(fails) THEN 0 ELSE at
               IN  /\ StoreLen(r.st) <= MaxLen
                   /\ store' = r.st
                   /\ call' = [NoCall EXCEPT !.op = "add_memories",
                                  !.texts = texts, !.dates = dates,
                                  !.raised = r.raised, !.failAt = failAt,
                                  !.pre = store]
    /\ UNCHANGED notStore

\* store.retrieve_memories(query, n, k)
StoreRetrieve ==
    /\ call.op = "none"
    /\ \E query \in Texts, n \in Args, k \in Args :
        \E order \in Argsorts(Similarities(store, query)) :
            LET r == RetrieveMemories(store, query, n, k, order)
            IN  /\ call' = [NoCall EXCEPT !.op = "retrieve_memories",
                                          !.query = query, !.n = n, !.k = k,
                                          !.cand = r.cand, !.idx = r.idx,
                                          !.result = r.result]
                /\ UNCHANGED store
    /\ UNCHANGED notStore

\* the caller takes the result of the call
StoreReturn ==
    /\ call.op # "none"
    /\ call' = NoCall
    /\ UNCHANGED <<store, notStore>>

StoreNext == StoreAdd \/ StoreRetrieve \/ StoreReturn

(***************************************************************************)
(* Claims about retrieve_memories and add_memories, checked under          *)
(* SpecStore.  In a state with call.op = "retrieve_memories" the store is  *)
(* the one the retrieval ran on.                                           *)
(***************************************************************************)
Retrieved == call.op = "retrieve_memories"

\* the similarities the retrieval recorded in `call` ranked by
CallSims == Similarities(store, call.query)

\* C is a set of the k most-similar records: k of them (all, if fewer exist),
\* none less similar than a record outside
IsTopKSet(C, k) ==
    /\ Cardinality(C) = Min(k, StoreLen(store))
    /\ \A c \in C, o \in (1..StoreLen(store)) \ C : ~SimLess(CallSims[c], CallSims[o])

\* the candidate set of the retrieval: the candidate_k most-similar records,
\* with ties at the edge of the band as the ranking of the code resolved them
CandidateSet == IF call.k = 0 THEN {} ELSE Range(call.cand)

\* C4 - retrieval ordering law: with C the set of the candidate_k most-similar
\* records, retrieve never returns a record of C whose timestamp is strictly
\* smaller than the timestamp of a record of C that it omits.
C4_RetrievalOrderingLaw ==
    Retrieved =>
        /\ IsTopKSet(CandidateSet, call.k)
        /\ \A r \in Range(call.idx) \cap CandidateSet :
               \A o \in CandidateSet \ Range(call.idx) :
                   store.memory_dates[r] >= store.memory_dates[o]

\* a retrieval that returned a record of C and omitted an older record of C
C4_Witness ==
    /\ Retrieved
    /\ \E r \in Range(call.idx) \cap CandidateSet :
           \E o \in CandidateSet \ Range(call.idx) :
               store.memory_dates[r] > store.memory_dates[o]

C6_RecencyOrderKeepsRank ==
    Retrieved =>
        \A x, y \in 1..Len(call.idx) :
            x < y =>
                /\ store.memory_dates[call.idx[x]] >= store.memory_dates[call.idx[y]]
                /\ store.memory_dates[call.idx[x]] = store.memory_dates[call.idx[y]] =>
                       Pos(call.cand, call.idx[x]) < Pos(call.cand, call.idx[y])
                /\ call.result[x].text = store.memories[call.idx[x]]

\* a result of two records of equal timestamp and different similarity
C6_Witness ==
    /\ Retrieved
    /\ Len(call.idx) >= 2
    /\ store.memory_dates[call.idx[1]] = store.memory_dates[call.idx[2]]
    /\ SimLess(CallSims[call.idx[2]], CallSims[call.idx[1]])

C8_LengthMismatchFails ==
    [][(call'.op = "add_memories" /\ Len(call'.texts) # Len(call'.dates)) =>
           (call'.raised = "ArgumentError" /\ store' = store)]_vars

\* the records of store st from position i on
StoreTail(st, i) ==
    [memories          |-> SubSeq(st.memories, i, StoreLen(st)),
     memory_embeddings |-> SubSeq(st.memory_embeddings, i, StoreLen(st)),
     memory_dates      |-> SubSeq(st.memory_dates, i, StoreLen(st))]

\* the first n records of store st
StoreHead(st, n) ==
    [memories          |-> SubSeq(st.memories, 1, n),
     memory_embeddings |-> SubSeq(st.memory_embeddings, 1, n),
     memory_dates      |-> SubSeq(st.memory_dates, 1, n)]

Added == call.op = "add_memories"

\* C11 - when the embedder gives up on the text at position failAt of an add
\* (the service failed on all its attempts), the call ends with the error and
\* the store holds what it held before plus the records of the texts before
\* failAt only: no record for that text or a later one.
C11_EmbedderFailurePropagates ==
    (Added /\ call.failAt > 0) =>
        /\ call.raised = "EmbeddingError"
        /\ StoreLen(store) = StoreLen(call.pre) + call.failAt - 1
        /\ StoreHead(store, StoreLen(call.pre)) = call.pre
        /\ \A i \in 1..(call.failAt - 1) :
               store.memories[StoreLen(call.pre) + i] = call.texts[i]

\* C12 - an add of n texts and n dates during which the embedder raises
\* nothing leaves the store equal to what it was followed by the n records
\* (texts[i], embed(texts[i]), dates[i]) in the order of the lists; the
\* records it held are unchanged and where they were.
C12_AddBatchAppendsInOrder ==
    (Added /\ Len(call.texts) = Len(call.dates) /\ call.raised = "none") =>
        /\ StoreLen(store) = StoreLen(call.pre) + Len(call.texts)
        /\ StoreHead(store, StoreLen(call.pre)) = call.pre
        /\ \A i \in 1..Len(call.texts) :
              LET j == StoreLen(call.pre) + i
              IN  /\ store.memories[j] = call.texts[i]
                  /\ store.memory_embeddings[j] = Embed(call.texts[i])
                  /\ store.memory_dates[j] = call.dates[i]

\* two different texts with different dates were added in one call
C12_Witness ==
    /\ Added
    /\ call.raised = "none"
    /\ Len(call.texts) = 2
    /\ Len(call.dates) = 2
    /\ call.texts[1] # call.texts[2]
    /\ call.dates[1] # call.dates[2]
    /\ StoreLen(store) = 2

\* the embedder gave up on the second text of a batch added to a store that
\* held a record
C11_Witness ==
    /\ Added
    /\ call.raised = "EmbeddingError"
    /\ call.failAt = 2
    /\ call.pre # EmptyStore
    /\ StoreLen(store) = StoreLen(call.pre) + 1

\* C13 - retrieve on an empty store returns the empty sequence, whatever the
\* query, n and k.
C13_EmptyStoreRetrievesNothing ==
    (Retrieved /\ StoreLen(store) = 0) => call.result = <<>>

\* an empty store was asked for n > 0 results among k > 0 candidates
C13_Witness ==
    /\ Retrieved
    /\ StoreLen(store) = 0
    /\ call.n > 0
    /\ call.k > 0

\* record i has an embedding of zero norm, or the query has
ZeroNorm(i) ==
    NormSq(store.memory_embeddings[i]) * NormSq(Embed(call.query)) = 0

\* the sign of the similarity of record i, for a record not of zero norm
Positive(i) == ~CallSims[i].nan /\ CallSims[i].num > 0

Negative(i) == ~CallSims[i].nan /\ CallSims[i].num < 0

\* C14 (as claimed) - a record whose similarity has a zero-norm denominator
\* counts as similarity 0: the retrieval raises nothing, and among the k
\* candidates such a record never displaces a record of positive similarity
\* and is never displaced by one of negative similarity.
C14_ZeroNormRanksAsZero ==
    (Retrieved /\ call.k >= 1) =>
        /\ call.raised = "none"
        /\ \A i, j \in 1..StoreLen(store) :
              /\ (ZeroNorm(i) /\ Positive(j) /\ i \in CandidateSet)
                    => j \in CandidateSet
              /\ (ZeroNorm(i) /\ Negative(j) /\ j \in CandidateSet)
                    => i \in CandidateSet

\* C26 (as claimed) - a retrieval on a store of s records with top_n >= 0
\* and candidate_k >= 0 returns min(top_n, candidate_k, s) texts, no record
\* twice; nothing for candidate_k = 0 or top_n = 0.
C26_ResultSize ==
    Retrieved =>
        /\ Len(call.result) = Min(call.n, Min(call.k, StoreLen(store)))
        /\ Len(call.idx) = Len(call.result)
        /\ Cardinality(Range(call.idx)) = Len(call.idx)

(***************************************************************************)
(* SpecFile: one UtilityRAG and the file it is saved to and loaded from.   *)
(* The process adds, retrieves, saves and loads one call at a time; it can *)
(* be stopped between the open() and the end of pickle.dump of a save, and *)
(* a new process then starts with an empty store on the same file.  The    *)
(* file can also be one that another writer left at the path: a pickled    *)
(* dict that lacks a key.                                                  *)
(***************************************************************************)
\* the texts the store is filled with, each dated 0
FileTexts == {"a", "d"}

\* the keys of the dict save_to_file pickles
BlobKeys == {"memories", "memory_embeddings", "memory_dates"}

\* the (key, value) items without those of key
WithoutKey(items, key) ==
    LET keep == {i \in 1..Len(items) : items[i][1] # key}
        nth(j) == CHOOSE i \in keep : Cardinality({h \in keep : h < i}) = j - 1
    IN  [j \in 1..Cardinality(keep) |-> items[nth(j)]]

\* the three lists of a store have one length
SameLength(st) ==
    /\ Len(st.memories) = Len(st.memory_embeddings)
    /\ Len(st.memories) = Len(st.memory_dates)

FileInit == blob = MissingBlob

\* inside save_to_file: the file is open for writing, nothing dumped yet
Saving == call.op = "open"

\* store.add_memories(texts, dates): lists of any two lengths; the embedder
\* may give up on the text at position at (0: on none)
FileAdd ==
    /\ ~Saving
    /\ SameLength(store)
    /\ \E texts \in SeqsUpTo(FileTexts, MaxBatch), nd \in 0..MaxBatch :
        \E at \in 0..Min(Len(texts), nd) :
            LET dates == [i \in 1..nd |-> 0]
                r == AddMemoriesUntil(store, texts, dates, at, EmbedAttempts)
            IN  /\ StoreLen(r.st) <= MaxLen
                /\ store' = r.st
                /\ call' = [NoCall EXCEPT !.op = "add_memories",
                                          !.raised = r.raised]
    /\ UNCHANGED <<blob, notFile>>

\* store.retrieve_memories(query, n, MaxArg)
FileRetrieve ==
    /\ ~Saving
    /\ SameLength(store)
    /\ \E query \in FileTexts, n \in {1, MaxArg} :
        \E order \in Argsorts(Similarities(store, query)) :
            call' = [NoCall EXCEPT
                       !.op = "retrieve_memories",
                       !.result = RetrieveMemories(store, query, n, MaxArg,
                                                   order).result]
    /\ UNCHANGED <<store, blob, notFile>>

\* store.save_to_file(filename) up to open(filename, 'wb'): the file exists
\* and is empty
FileSaveOpen ==
    /\ ~Saving
    /\ SameLength(store)
    /\ blob' = TruncatedBlob
    /\ call' = [NoCall EXCEPT !.op = "open"]
    /\ UNCHANGED <<store, notFile>>

\* pickle.dump completes and the file is closed
FileSaveDump ==
    /\ Saving
    /\ blob' = Pickle(store)
    /\ call' = [NoCall EXCEPT !.op = "save_to_file"]
    /\ UNCHANGED <<store, notFile>>

\* the process is stopped inside save_to_file; the next one starts with an
\* empty store
FileInterrupt ==
    /\ Saving
    /\ store' = EmptyStore
    /\ call' = NoCall
    /\ UNCHANGED <<blob, notFile>>

\* store.load_from_file(filename)
FileLoad ==
    /\ ~Saving
    /\ LET r == LoadFromFile(store, blob)
       IN  /\ store' = r.st
           /\ call' = [NoCall EXCEPT
                         !.op = "load_from_file",
                         !.raised = IF r.raised THEN "Error" ELSE "none"]
    /\ UNCHANGED <<blob, notFile>>

\* the file at the path is replaced by a pickled dict without one of the
\* three keys
FileReplaced ==
    /\ ~Saving
    /\ blob.kind = "pickle"
    /\ Len(blob.items) = Cardinality(BlobKeys)
    /\ \E key \in BlobKeys : blob' = [blob EXCEPT !.items = WithoutKey(@, key)]
    /\ UNCHANGED <<store, call, notFile>>

FileNext ==
    \/ FileAdd
    \/ FileRetrieve
    \/ FileSaveOpen
    \/ FileSaveDump
    \/ FileInterrupt
    \/ FileLoad
    \/ FileReplaced

\* C27 (as claimed) - in every state of a store, after any add_memories -
\* also one ended by the embedder or given lists of two lengths -
\* retrieve_memories, save_to_file and load_from_file, also a load that
\* failed on a missing or malformed file, the lists of texts, embeddings
\* and dates have one length.
C27_SequencesSameLength == SameLength(store)

(***************************************************************************)
(* SpecLayered: one process with one LMRRAG, and one snapshot directory.   *)
(* The process adds to the layers, saves and loads; it can be interrupted  *)
(* at any point, also between the open() and the end of pickle.dump of a   *)
(* blob, and a new process then starts with an empty LMRRAG on the same    *)
(* directory.                                                              *)
(***************************************************************************)
\* the records the layers are filled with
LayerTexts == {"a", "d"}

LayerDate(text) == IF text = "a" THEN 0 ELSE 1

\* `pre` is the LMRRAG as a load found it
NoLCall ==
    [op |-> "none", returned |-> "none", loaded |-> {}, embeds |-> 0,
     pre |-> EmptyLMRRAG]

NoDir == [has |-> FALSE, dir |-> EmptyDir]

NotWritten == [has |-> FALSE, st |-> EmptyStore]

LayeredInit ==
    /\ lm = EmptyLMRRAG
    /\ dir = EmptyDir
    /\ lpc = <<"idle", "">>
    /\ lcall = NoLCall
    /\ written = [l \in LayerSet |-> NotWritten]
    /\ loadedDir = NoDir

\* lm.add_facts / add_reflections / add_deep_reflections([text], [date])
LayeredAdd ==
    /\ lpc[1] = "idle"
    /\ \E layer \in LayerSet, text \in LayerTexts :
        /\ StoreLen(lm[layer]) < MaxLayerLen
        /\ lm' = AddToLayer(lm, layer, <<text>>, <<LayerDate(text)>>)
        /\ lcall' = [NoLCall EXCEPT !.op = "add", !.embeds = 1]
    /\ loadedDir' = NoDir
    /\ UNCHANGED <<dir, lpc, written, notLayered>>

\* the layer save_to_file goes to after `layer` ("" after the last)
NextLayer(layer) ==
    IF layer = "facts" THEN "reflections"
    ELSE IF layer = "reflections" THEN "deep_reflections"
    ELSE ""

\* lm.save_to_file(dir) is called: os.makedirs, then the first blob is up
LayeredSaveCall ==
    /\ lpc[1] = "idle"
    /\ lpc' = <<"open", "facts">>
    /\ lcall' = [NoLCall EXCEPT !.op = "save"]
    /\ UNCHANGED <<lm, dir, written, loadedDir, notLayered>>

\* open(filename, 'wb'): the file exists and is empty
LayeredSaveOpen ==
    /\ lpc[1] = "open"
    /\ dir' = [dir EXCEPT ![lpc[2]] = TruncatedBlob]
    /\ written' = [written EXCEPT ![lpc[2]] = NotWritten]
    /\ lpc' = <<"dump", lpc[2]>>
    /\ UNCHANGED <<lm, lcall, loadedDir, notLayered>>

\* pickle.dump completes and the file is closed; the next blob, or the return
LayeredSaveDump ==
    /\ lpc[1] = "dump"
    /\ dir' = [dir EXCEPT ![lpc[2]] = Pickle(SavedStore(lm, lpc[2]))]
    /\ written' = [written EXCEPT ![lpc[2]] =
                                   [has |-> TRUE, st |-> SavedStore(lm, lpc[2])]]
    /\ lpc' = IF NextLayer(lpc[2]) = "" THEN <<"idle", "">>
              ELSE <<"open", NextLayer(lpc[2])>>
    /\ lcall' = IF NextLayer(lpc[2]) = "" THEN [lcall EXCEPT !.returned = "None"]
                ELSE lcall
    /\ UNCHANGED <<lm, loadedDir, notLayered>>

\* lm.load_from_file(dir)
LayeredLoad ==
    /\ lpc[1] = "idle"
    /\ LET r == LoadLayers(lm, dir)
       IN  /\ lm' = r.lm
           /\ lcall' = [op |-> "load", loaded |-> r.loaded,
                        returned |-> IF r.ok THEN "True" ELSE "False",
                        embeds |-> r.embeds, pre |-> lm]
           /\ loadedDir' = IF r.ok THEN [has |-> TRUE, dir |-> dir] ELSE NoDir
    /\ UNCHANGED <<dir, lpc, written, notLayered>>

\* the process is interrupted; a new one starts with a new LMRRAG
LayeredInterrupt ==
    /\ lm' = EmptyLMRRAG
    /\ lpc' = <<"idle", "">>
    /\ lcall' = NoLCall
    /\ loadedDir' = NoDir
    /\ UNCHANGED <<dir, written, notLayered>>

LayeredNext ==
    \/ LayeredAdd
    \/ LayeredSaveCall
    \/ LayeredSaveOpen
    \/ LayeredSaveDump
    \/ LayeredLoad
    \/ LayeredInterrupt

(***************************************************************************)
(* Claims about save and load, checked under SpecLayered.                  *)
(***************************************************************************)
Loaded == lcall.op = "load"

\* C1 (as claimed) - LMRRAG.load_from_file returns False and leaves the three
\* layers as they were whenever at least one of the three blobs is missing or
\* unreadable, also when the blobs of the layers loaded before it are good.
C1_FailedLoadLeavesLayers ==
    (Loaded /\ \E layer \in LayerSet : dir[layer].kind # "pickle") =>
        (lcall.returned = "False" /\ lm = lcall.pre)

\* C9 - a load of a blob that save wrote from a store S leaves the loading
\* store equal to S (texts, embeddings and dates, in order), whatever it held
\* before, and calls the embedder not once.
C9_LoadRestoresSavedStore ==
    Loaded =>
        /\ \A layer \in lcall.loaded :
               /\ written[layer].has
               /\ lm[layer] = written[layer].st
        /\ lcall.embeds = 0

\* a store that held a record of its own (an add not saved) loaded a blob
\* holding another record
C9_Witness ==
    /\ Loaded
    /\ \E layer \in lcall.loaded :
           /\ lcall.pre[layer] # EmptyStore
           /\ lm[layer] # EmptyStore
           /\ lm[layer] # lcall.pre[layer]

\* C10 - load(dir) followed immediately by save(dir) leaves each of the three
\* blobs of a complete snapshot equal to what it was.
C10_LoadThenSaveIsIdentity ==
    (lcall.op = "save" /\ lcall.returned = "None" /\ loadedDir.has) =>
        dir = loadedDir.dir

\* a save right after a successful load has completed, on a snapshot whose
\* layers differ
C10_Witness ==
    /\ lcall.op = "save"
    /\ lcall.returned = "None"
    /\ loadedDir.has
    /\ written["facts"].st # written["reflections"].st
    /\ written["reflections"].st # written["deep_reflections"].st
    /\ written["reflections"].st # EmptyStore

(***************************************************************************)
(* Spec: one Agent inside the session loop of main.py.  Each session ends  *)
(* with agent.reflect(transcript, year, date, date_int); the process can   *)
(* be interrupted at any step and started again, and the new process runs  *)
(* the loop from its first session with freshly constructed stores.        *)
(* What the text generator and the embedder return is abstracted: a fact   *)
(* is FactText, a reflection ReflectionText, an answer AnswerText; a       *)
(* description is named by the session whose update produced it.           *)
(* The texts a retrieval returns go into a prompt only, so DEEP_REFLECT    *)
(* keeps the sizes of the stores the retrieval ranked, not the ranking.    *)
(***************************************************************************)
NumSessions == 2     \* sessions of the loop
NumQuestions == 2    \* questions one question-generation call returns
NumFacts == 1        \* facts, and reflections, one extraction call returns
MaxRestarts == 1     \* times the process is started again
MaxRetries == 5      \* max_retries of a GPT4O.call ranges over 0..MaxRetries
MaxWait == 2         \* initial_wait of a GPT4O.call ranges over 0..MaxWait
NumYears == 2        \* years of four sessions whose date_int are compared

Sessions == 0..(NumSessions - 1)

\* (mutant of DateInt) date_int counting down
DateInt_CountDown(s) == 0 - ((s \div 4) * 10 + (s % 4))

\* date_int of the session with index s: four sessions a year
DateInt(s) == (s \div 4) * 10 + (s % 4)

\* The directory "<date_int>_reflection" of session s, named by the index of
\* the session whose date_int gives that name
SnapDir(s) == CHOOSE d \in Sessions : DateInt(d) = DateInt(s)

\* write_and_save given the directory of the session before
PersistDir_Previous(s) == SnapDir(IF s > 0 THEN s - 1 ELSE s)

\* the directory reflect hands to write_and_save: the one it tried to load
PersistDir(s) == SnapDir(s)

Subjects == {"self", "counterpart"}

FactText == "a"

ReflectionText == "d"

AnswerText == "a"

\* the answer to question j of a batch: two texts in turn, so that consecutive
\* answers differ
AnswerTo(j) == IF j % 2 = 1 THEN AnswerText ELSE ReflectionText

\* a description: the one of the agent configuration, or the session whose
\* update produced it; Unset is an attribute not assigned, a file not written
InitialDescription == -1

Unset == -2

InitDesc ==
    [config_description         |-> InitialDescription,
     description_of_self        |-> InitialDescription,
     description_of_counterpart |-> InitialDescription,
     counterpart_description    |-> Unset]

NoRefFiles ==
    [self_description |-> Unset, counterpart_description |-> Unset,
     ref_transcript |-> "missing", transcript |-> "missing"]

NotLoaded == [self |-> FALSE, counterpart |-> FALSE]

\* what the retrievals for a question ranked: the subject, the number of
\* the question (0: no retrieval made yet), the size of the reflections
\* store and the deep_reflections store
NotSeen == [who |-> "", q |-> 0, reflections |-> 0, deep_reflections |-> EmptyStore]

\* the last text-generation call of reflect: the step that made it and what
\* came back
NoResponse == [step |-> "", kind |-> ""]

\* locals of reflect at its entry; `malformed`: the subjects whose extraction
\* came back with a value that is no list; `entered` and `entry` (history): the
\* resume check has been made, and the two LMRRAGs as it left them
NoLocal ==
    [q |-> 0, who |-> "", layer |-> "", sent |-> Unset,
     seen |-> NotSeen, consciousness |-> "none",
     response |-> NoResponse, malformed |-> {},
     entered |-> FALSE, entry |-> [w \in {"self", "counterpart"} |-> EmptyLMRRAG]]

ZeroCnt == [llm |-> 0, embed |-> 0, appends |-> 0, blobs |-> 0]

AgentInit ==
    /\ pc = "CHECK_RESUME"
    /\ session = 0
    /\ rag = [w \in Subjects |-> EmptyLMRRAG]
    /\ desc = InitDesc
    /\ snap = [s \in Sessions |-> [w \in Subjects |-> EmptyDir]]
    /\ refFiles = [s \in Sessions |-> NoRefFiles]
    /\ loaded = NotLoaded
    /\ local = NoLocal
    /\ cnt = ZeroCnt
    /\ persistDone = {}
    /\ restarts = 0
    /\ err = "none"

\* an exception leaves reflect and main.py: the process ends
Raise(e) == pc' = "DEAD" /\ err' = e

\* the resume condition with one load taken for both
ResumeHit_Either(self_loaded, counter_loaded) == self_loaded \/ counter_loaded

\* `if self_loaded and counter_loaded`
ResumeHit(self_loaded, counter_loaded) == self_loaded /\ counter_loaded

\* the resume branch without its return
AfterCheck_NoReturn(hit) == "EXTRACT_SELF"

\* the resume branch returns; otherwise reflect goes on to the extraction
AfterCheck(hit) == IF hit THEN "DONE" ELSE "EXTRACT_SELF"

\* CHECK_RESUME: both loads are made; when both succeed the two description
\* files are read, config.description is set back to description_of_self and
\* reflect returns
CheckResume ==
    /\ pc = "CHECK_RESUME"
    /\ LET s == LoadLayers(rag["self"], snap[SnapDir(session)]["self"])
           c == LoadLayers(rag["counterpart"], snap[SnapDir(session)]["counterpart"])
           hit == ResumeHit(s.ok, c.ok)
           f == refFiles[SnapDir(session)]
       IN  /\ rag' = [w \in Subjects |-> IF w = "self" THEN s.lm ELSE c.lm]
           /\ loaded' = [w \in Subjects |-> IF w = "self" THEN s.ok ELSE c.ok]
           /\ cnt' = [ZeroCnt EXCEPT !.embed = s.embeds + c.embeds]
           /\ IF ~hit
                THEN pc' = AfterCheck(hit) /\ UNCHANGED <<desc, err>>
              ELSE IF f.self_description = Unset
                THEN Raise("FileNotFoundError") /\ UNCHANGED desc
              ELSE IF f.counterpart_description = Unset
                THEN /\ Raise("FileNotFoundError")
                     /\ desc' = [desc EXCEPT
                                   !.config_description = f.self_description]
              ELSE /\ pc' = AfterCheck(hit)
                   /\ desc' = [desc EXCEPT
                         !.config_description = desc.description_of_self,
                         !.counterpart_description = f.counterpart_description]
                   /\ err' = err
    /\ local' = [NoLocal EXCEPT !.entered = TRUE, !.entry = rag']
    /\ UNCHANGED <<session, snap, refFiles, persistDone, restarts, notAgent>>

\* what a text-generation call that is to answer with JSON can come back as:
\* parseable JSON, other text, or the None of GPT4O.call after its retries
JsonOutcomes == {"ok", "unparseable", "none"}

\* the step after an extraction, a question generation, the last answer
StepAfter(step) ==
    IF step = "EXTRACT_SELF" THEN "EXTRACT_COUNTERPART"
    ELSE IF step = "EXTRACT_COUNTERPART" THEN "STORE"
    ELSE IF step = "QUESTIONS_SELF" THEN "ANSWER_SELF"
    ELSE IF step = "ANSWER_SELF" THEN "QUESTIONS_COUNTERPART"
    ELSE IF step = "QUESTIONS_COUNTERPART" THEN "ANSWER_COUNTERPART"
    ELSE "SUMMARIZE"

\* is_self of the step
SubjectOf(step) ==
    IF step \in {"EXTRACT_SELF", "QUESTIONS_SELF", "ANSWER_SELF"} THEN "self"
    ELSE "counterpart"

\* what an extraction call can come back as: also JSON with both keys in
\* which "reflections" is a number instead of a list of strings
ExtractOutcomes == JsonOutcomes \cup {"wrong_shape"}

\* the exception find / json.loads / the key lookups raise on a response
ParseError(out) ==
    IF out = "none" THEN "AttributeError"
    ELSE IF out = "unparseable" THEN "JSONDecodeError"
    ELSE "none"

\* _generate_facts_and_reflections, for self then for the counterpart: one
\* call, then find / json.loads and the two key lookups; the values found
\* are returned as they are
Extract ==
    /\ pc \in {"EXTRACT_SELF", "EXTRACT_COUNTERPART"}
    /\ cnt' = [cnt EXCEPT !.llm = @ + 1]
    /\ \E out \in ExtractOutcomes :
          /\ local' = [local EXCEPT
                !.response = [step |-> pc, kind |-> out],
                !.malformed = IF out = "wrong_shape"
                              THEN @ \cup {SubjectOf(pc)} ELSE @]
          /\ IF ParseError(out) = "none" THEN pc' = StepAfter(pc) /\ err' = err
             ELSE Raise(ParseError(out))
    /\ UNCHANGED <<session, rag, desc, snap, refFiles, loaded,
                   persistDone, restarts, notAgent>>

\* n copies of x
Repeat(x, n) == [i \in 1..n |-> x]

\* the appends of STORE in the order of the four add calls
StoreAppends ==
    Repeat(<<"self", "facts", FactText>>, NumFacts)
    \o Repeat(<<"self", "reflections", ReflectionText>>, NumFacts)
    \o Repeat(<<"counterpart", "facts", FactText>>, NumFacts)
    \o Repeat(<<"counterpart", "reflections", ReflectionText>>, NumFacts)

\* the first n of the appends applied to the two LMRRAGs
RECURSIVE ApplyAppends(_, _, _, _)
ApplyAppends(r, appends, n, date) ==
    IF n = 0 THEN r
    ELSE LET a == appends[1]
         IN  ApplyAppends(
                 [r EXCEPT ![a[1]] = AddToLayer(@, a[2], <<a[3]>>, <<date>>)],
                 Tail(appends), n - 1, date)

\* the appends STORE gets to: len() of a "reflections" value that is a
\* number raises TypeError when the arguments of that subject's
\* add_reflections are built, after the adds before it
StoreReach(malformed) ==
    IF "self" \in malformed THEN NumFacts
    ELSE IF "counterpart" \in malformed THEN 3 * NumFacts
    ELSE 4 * NumFacts

\* STORE: the four add calls; the embedder may raise at any text, and the
\* records of the texts before it stay appended
StoreMemories ==
    /\ pc = "STORE"
    /\ \E failAt \in 0..StoreReach(local.malformed) :
          LET done == IF failAt = 0 THEN StoreReach(local.malformed)
                      ELSE failAt - 1
              calls == IF failAt = 0 THEN StoreReach(local.malformed) ELSE failAt
          IN  /\ rag' = ApplyAppends(rag, StoreAppends, done, DateInt(session))
              /\ cnt' = [cnt EXCEPT !.embed = @ + calls, !.appends = @ + done]
              /\ IF failAt # 0 THEN Raise("EmbeddingError")
                 ELSE IF done < Len(StoreAppends) THEN Raise("TypeError")
                 ELSE pc' = "QUESTIONS_SELF" /\ err' = err
    /\ UNCHANGED <<session, desc, snap, refFiles, loaded, local,
                   persistDone, restarts, notAgent>>

\* _generate_deep_reflection_questions: one call, then find / json.loads
Questions ==
    /\ pc \in {"QUESTIONS_SELF", "QUESTIONS_COUNTERPART"}
    /\ cnt' = [cnt EXCEPT !.llm = @ + 1]
    /\ \E out \in JsonOutcomes :
          /\ local' = [local EXCEPT !.q = 0,
                                    !.response = [step |-> pc, kind |-> out]]
          /\ IF ParseError(out) = "none" THEN pc' = StepAfter(pc) /\ err' = err
             ELSE Raise(ParseError(out))
    /\ UNCHANGED <<session, rag, desc, snap, refFiles, loaded,
                   persistDone, restarts, notAgent>>

\* how the processing of one question can end
AnswerOutcomes ==
    {"ok", "embed_reflections", "embed_deep_reflections", "none", "embed_answer"}

\* retrieve_memories embeds the query unless the store is empty
QueryEmbeds(st) == IF StoreLen(st) = 0 THEN 0 ELSE 1

\* the answers kept aside and appended after the loop
DeepAfterAnswer_Deferred(l, j, date) == l

\* the answer dated as the first session
DeepAfterAnswer_FirstDate(l, j, date) ==
    AddToLayer(l, "deep_reflections", <<AnswerTo(j)>>, <<0>>)

\* rag.add_deep_reflections([answer], [date_int]) inside the loop
DeepAfterAnswer(l, j, date) ==
    AddToLayer(l, "deep_reflections", <<AnswerTo(j)>>, <<date>>)

\* one turn of the loop of _process_deep_reflections: get_reflections,
\* get_deep_reflections, the answer call, add_deep_reflections([answer])
Answer ==
    /\ pc \in {"ANSWER_SELF", "ANSWER_COUNTERPART"}
    /\ LET who == SubjectOf(pc)
           l == rag[who]
           e1 == QueryEmbeds(l["reflections"])
           e2 == QueryEmbeds(l["deep_reflections"])
       IN  \E out \in AnswerOutcomes :
             /\ out = "embed_reflections" => e1 = 1
             /\ out = "embed_deep_reflections" => e2 = 1
             /\ local' = [local EXCEPT
                   !.q = IF out = "ok" THEN @ + 1 ELSE @,
                   !.response = IF out \in {"ok", "none", "embed_answer"}
                                THEN [step |-> pc,
                                      kind |-> IF out = "none" THEN "none" ELSE "ok"]
                                ELSE @,
                   !.seen = IF out = "embed_reflections" THEN @
                            ELSE [who |-> who, q |-> local.q + 1,
                                  reflections |-> StoreLen(l["reflections"]),
                                  deep_reflections |-> l["deep_reflections"]]]
             /\ cnt' = [cnt EXCEPT
                   !.embed = @ + (IF out = "embed_reflections" THEN e1
                                  ELSE IF out \in {"embed_deep_reflections", "none"}
                                    THEN e1 + e2
                                  ELSE e1 + e2 + 1),
                   !.llm = @ + (IF out \in {"ok", "none", "embed_answer"}
                                THEN 1 ELSE 0),
                   !.appends = @ + (IF out = "ok" THEN 1 ELSE 0)]
             /\ rag' = IF out = "ok"
                       THEN [rag EXCEPT ![who] =
                               DeepAfterAnswer(@, local.q + 1, DateInt(session))]
                       ELSE rag
             /\ IF out = "ok"
                  THEN /\ pc' = IF local.q + 1 = NumQuestions
                                 THEN StepAfter(pc) ELSE pc
                       /\ err' = err
                ELSE IF out = "none" THEN Raise("AttributeError")
                ELSE Raise("EmbeddingError")
    /\ UNCHANGED <<session, desc, snap, refFiles, loaded,
                   persistDone, restarts, notAgent>>

\* SUMMARIZE: the question, answer and summary text files
Summarize ==
    /\ pc = "SUMMARIZE"
    /\ pc' = "UPDATE_SELF"
    /\ UNCHANGED <<session, rag, desc, snap, refFiles, loaded, local, cnt,
                   persistDone, restarts, err, notAgent>>

\* _update_descriptions(summary, is_self=True): config.description is sent
\* and replaced
UpdateSelf ==
    /\ pc = "UPDATE_SELF"
    /\ cnt' = [cnt EXCEPT !.llm = @ + 1]
    /\ \E out \in {"ok", "none"} :
        /\ local' = [local EXCEPT !.sent = desc.config_description,
                                  !.response = [step |-> pc, kind |-> out]]
        /\ IF out = "ok"
            THEN /\ desc' = [desc EXCEPT !.config_description = session]
                 /\ pc' = "UPDATE_COUNTERPART"
                 /\ err' = err
          ELSE Raise("AttributeError") /\ desc' = desc
    /\ UNCHANGED <<session, rag, snap, refFiles, loaded,
                   persistDone, restarts, notAgent>>

\* _update_descriptions(summary, is_self=False): description_of_counterpart
\* is sent, counterpart_description is assigned
UpdateCounterpart ==
    /\ pc = "UPDATE_COUNTERPART"
    /\ cnt' = [cnt EXCEPT !.llm = @ + 1]
    /\ \E out \in {"ok", "none"} :
        /\ local' = [local EXCEPT !.sent = desc.description_of_counterpart,
                                  !.response = [step |-> pc, kind |-> out]]
        /\ IF out = "ok"
            THEN /\ desc' = [desc EXCEPT !.counterpart_description = session]
                 /\ pc' = "WRITE_DESCRIPTIONS"
                 /\ err' = err
          ELSE Raise("AttributeError") /\ desc' = desc
    /\ UNCHANGED <<session, rag, snap, refFiles, loaded,
                   persistDone, restarts, notAgent>>

\* the two updated descriptions are written to their text files
WriteDescriptions ==
    /\ pc = "WRITE_DESCRIPTIONS"
    /\ refFiles' = [refFiles EXCEPT ![SnapDir(session)] = [@ EXCEPT
                      !.self_description = session,
                      !.counterpart_description = session]]
    /\ local' = [local EXCEPT !.who = "self", !.layer = "facts"]
    /\ pc' = "PERSIST_OPEN"
    /\ UNCHANGED <<session, rag, desc, snap, loaded, cnt,
                   persistDone, restarts, err, notAgent>>

\* PERSIST, write_and_save of self_rag then of counterpart_rag:
\* open(<layer>.pkl, 'wb') leaves the blob empty
PersistOpen ==
    /\ pc = "PERSIST_OPEN"
    /\ snap' = [snap EXCEPT ![PersistDir(session)][local.who][local.layer] = TruncatedBlob]
    /\ cnt' = [cnt EXCEPT !.blobs = @ + 1]
    /\ pc' = "PERSIST_DUMP"
    /\ UNCHANGED <<session, rag, desc, refFiles, loaded, local,
                   persistDone, restarts, err, notAgent>>

\* pickle.dump completes; the next blob, the next LMRRAG, or the end of PERSIST
PersistDump ==
    /\ pc = "PERSIST_DUMP"
    /\ snap' = [snap EXCEPT ![PersistDir(session)][local.who][local.layer] =
                                Pickle(SavedStore(rag[local.who], local.layer))]
    /\ LET nl == NextLayer(local.layer)
       IN  IF nl # ""
             THEN /\ local' = [local EXCEPT !.layer = nl]
                  /\ pc' = "PERSIST_OPEN"
                  /\ UNCHANGED persistDone
           ELSE IF local.who = "self"
             THEN /\ local' = [local EXCEPT !.who = "counterpart",
                                            !.layer = "facts"]
                  /\ pc' = "PERSIST_OPEN"
                  /\ UNCHANGED persistDone
           ELSE /\ local' = [local EXCEPT !.who = "", !.layer = ""]
                /\ pc' = "CONSCIOUSNESS"
                /\ persistDone' = persistDone \cup {session}
    /\ UNCHANGED <<session, rag, desc, refFiles, loaded, cnt,
                   restarts, err, notAgent>>

\* _generate_consciousness_reflection: the response is stored as it comes,
\* the None of a failed call included
Consciousness ==
    /\ pc = "CONSCIOUSNESS"
    /\ cnt' = [cnt EXCEPT !.llm = @ + 1]
    /\ \E out \in {"ok", "none"} :
          local' = [local EXCEPT
                      !.consciousness = IF out = "ok" THEN "text" ELSE "null",
                      !.response = [step |-> pc, kind |-> out]]
    /\ pc' = "WRITE_TRANSCRIPT"
    /\ UNCHANGED <<session, rag, desc, snap, refFiles, loaded,
                   persistDone, restarts, err, notAgent>>

\* the transcript is written as JSON next to the reflections, rendered as
\* PDF, then written to the transcripts directory; rendering a None message
\* may raise
WriteTranscript ==
    /\ pc = "WRITE_TRANSCRIPT"
    /\ \E pdfRaises \in BOOLEAN :
          /\ pdfRaises => local.consciousness = "null"
          /\ refFiles' = [refFiles EXCEPT ![SnapDir(session)] = [@ EXCEPT
                 !.ref_transcript = local.consciousness,
                 !.transcript = IF pdfRaises THEN @ ELSE local.consciousness]]
          /\ IF pdfRaises THEN Raise("PdfError")
             ELSE pc' = "DONE" /\ err' = err
    /\ UNCHANGED <<session, rag, desc, snap, loaded, local, cnt,
                   persistDone, restarts, notAgent>>

\* reflect has returned: the loop of main.py goes to its next session
NextSession ==
    /\ pc = "DONE"
    /\ IF session + 1 < NumSessions
         THEN session' = session + 1 /\ pc' = "CHECK_RESUME"
       ELSE session' = session /\ pc' = "FINISHED"
    /\ loaded' = NotLoaded
    /\ local' = NoLocal
    /\ cnt' = ZeroCnt
    /\ UNCHANGED <<rag, desc, snap, refFiles, persistDone, restarts, err,
                   notAgent>>

\* the process is interrupted at whatever step it is
Interrupt ==
    /\ pc \notin {"DEAD", "FINISHED"}
    /\ restarts < MaxRestarts
    /\ Raise("Interrupt")
    /\ UNCHANGED <<session, rag, desc, snap, refFiles, loaded, local, cnt,
                   persistDone, restarts, notAgent>>

\* main.py is run again: new Agent, new empty LMRRAGs, the loop from its
\* first session; the files stay
Restart ==
    /\ pc = "DEAD"
    /\ restarts < MaxRestarts
    /\ restarts' = restarts + 1
    /\ pc' = "CHECK_RESUME"
    /\ session' = 0
    /\ rag' = [w \in Subjects |-> EmptyLMRRAG]
    /\ desc' = InitDesc
    /\ loaded' = NotLoaded
    /\ local' = NoLocal
    /\ cnt' = ZeroCnt
    /\ err' = "none"
    /\ UNCHANGED <<snap, refFiles, persistDone, notAgent>>

AgentNext ==
    \/ CheckResume
    \/ Extract
    \/ StoreMemories
    \/ Questions
    \/ Answer
    \/ Summarize
    \/ UpdateSelf
    \/ UpdateCounterpart
    \/ WriteDescriptions
    \/ PersistOpen
    \/ PersistDump
    \/ Consciousness
    \/ WriteTranscript
    \/ NextSession
    \/ Interrupt
    \/ Restart

(***************************************************************************)
(* Claims checked under Spec.                                              *)
(***************************************************************************)
\* both loads of the running reflect succeeded
ResumedBoth == loaded["self"] /\ loaded["counterpart"]

\* every blob of the session's two snapshot directories is what a dump of
\* the agent's store of that layer writes
StoresAsSnapshot ==
    \A w \in Subjects, layer \in LayerSet :
        snap[session][w][layer] = Pickle(rag[w][layer])

\* C2 - when both loads of CHECK_RESUME succeed, reflect is at DONE at once
\* (the only step left to the process is to go on, or to be interrupted
\* there): it has made no text-generation call and no embedder call, has
\* appended no record - the stores are the loaded snapshots - and has written
\* no snapshot blob.
C2_ResumeSkipsGeneration ==
    ResumedBoth =>
        /\ pc \in {"DONE", "DEAD"}
        /\ pc = "DEAD" => err = "Interrupt"
        /\ cnt = ZeroCnt
        /\ StoresAsSnapshot

\* a restarted process resumed a session over snapshots that hold records
C2_Witness ==
    /\ ResumedBoth
    /\ pc = "DONE"
    /\ restarts > 0
    /\ \A w \in Subjects, layer \in LayerSet : rag[w][layer] # EmptyStore

\* C3 - CHECK_RESUME of a session whose PERSIST has not written all six
\* blobs does not short-circuit: at least one load fails and the next step
\* is the first of EXTRACT.
C3_UnfinishedPersistReruns ==
    [][(pc = "CHECK_RESUME" /\ pc' # pc /\ err' # "Interrupt"
            /\ session \notin persistDone)
        => (pc' = "EXTRACT_SELF"
            /\ ~(loaded'["self"] /\ loaded'["counterpart"]))]_vars

\* a restarted process is back at the extraction of a session that was
\* interrupted inside PERSIST, after the three blobs of the self-store
C3_Witness ==
    /\ pc = "EXTRACT_SELF"
    /\ restarts > 0
    /\ session \notin persistDone
    /\ loaded["self"]
    /\ ~loaded["counterpart"]
    /\ snap[session]["counterpart"]["facts"].kind # "missing"

\* C15 - the deep_reflections store that the retrieval for question j of a
\* batch ranks ends with the answers to questions 1..j-1 of the batch, in
\* question order and dated with the session: each answer is appended before
\* the next question is processed.
C15_LaterQuestionsSeeEarlierAnswers ==
    LET j == local.seen.q
        sd == local.seen.deep_reflections
    IN  j >= 1 =>
          /\ StoreLen(sd) >= j - 1
          /\ \A i \in 1..(j - 1) :
                LET at == StoreLen(sd) - (j - 1) + i
                IN  /\ sd.memories[at] = AnswerTo(i)
                    /\ sd.memory_dates[at] = DateInt(session)

\* the last question of a batch of the second session has been answered
C15_Witness ==
    /\ local.seen.q = NumQuestions
    /\ local.q = NumQuestions
    /\ session = 1
    /\ pc # "DEAD"
    /\ StoreLen(local.seen.deep_reflections) >= 2 * NumQuestions - 1

\* the records the running reflect appended to store (w, layer): those after
\* the records the store held when the resume check was done
AppendedSince(w, layer) ==
    StoreTail(rag[w][layer], StoreLen(local.entry[w][layer]) + 1)

\* C16 - in a session that is not resumed, every store of the two LMRRAGs is
\* what it was after the resume check followed by the records appended
\* since, and each of those - fact, reflection or deep reflection, of either
\* subject - is dated with the session's date_int.
C16_AppendsCarrySessionDate ==
    (local.entered /\ ~ResumedBoth) =>
        \A w \in Subjects, layer \in LayerSet :
            /\ StoreLen(rag[w][layer]) >= StoreLen(local.entry[w][layer])
            /\ StoreHead(rag[w][layer], StoreLen(local.entry[w][layer]))
                   = local.entry[w][layer]
            /\ \A i \in 1..StoreLen(AppendedSince(w, layer)) :
                   AppendedSince(w, layer).memory_dates[i] = DateInt(session)

\* the second session has appended to all six stores, which held the records
\* of the first
C16_Witness ==
    /\ local.entered
    /\ ~ResumedBoth
    /\ session = 1
    /\ pc = "SUMMARIZE"
    /\ \A w \in Subjects, layer \in LayerSet :
           /\ local.entry[w][layer] # EmptyStore
           /\ StoreLen(AppendedSince(w, layer)) >= 1

\* the last text-generation call was an extraction and its response is not
\* the facts / reflections structure
ExtractionNotParsed ==
    /\ local.response.step \in {"EXTRACT_SELF", "EXTRACT_COUNTERPART"}
    /\ local.response.kind \in {"unparseable", "wrong_shape"}

\* C17 (as claimed) - an extraction response that cannot be parsed into the
\* facts / reflections structure ends reflect there with an error: reflect
\* has appended no record and written no snapshot blob.
C17_UnparsedExtractionAborts ==
    ExtractionNotParsed =>
        /\ pc = "DEAD"
        /\ err # "Interrupt"
        /\ cnt.appends = 0
        /\ cnt.blobs = 0

\* C18 (as claimed) - when a text-generation call of reflect comes back as
\* None the session ends there with an error, and no file ever holds the
\* None as if it were generated text.
C18_SentinelAbortsSession ==
    /\ local.response.kind = "none" => (pc = "DEAD" /\ err # "Interrupt")
    /\ \A s \in Sessions :
          /\ refFiles[s].ref_transcript # "null"
          /\ refFiles[s].transcript # "null"

\* C19 (as claimed) - whenever reflect has returned its path, by the resume
\* branch or after a full run, the transcript file of the session at that
\* path exists and holds the generated narrative.
C19_ReturnedPathHoldsTranscript ==
    pc = "DONE" => refFiles[session].transcript = "text"

\* the steps the session is described as, in order
ClaimedSteps ==
    <<{"EXTRACT_SELF", "EXTRACT_COUNTERPART"},
      {"STORE"},
      {"QUESTIONS_SELF", "ANSWER_SELF", "QUESTIONS_COUNTERPART",
       "ANSWER_COUNTERPART"},
      {"SUMMARIZE"},
      {"UPDATE_SELF", "UPDATE_COUNTERPART", "WRITE_DESCRIPTIONS"},
      {"PERSIST_OPEN", "PERSIST_DUMP"},
      {"DONE"}>>

\* the place of a step in that order, 0 for a step that is not in it
Phase(step) ==
    IF \E i \in 1..Len(ClaimedSteps) : step \in ClaimedSteps[i]
    THEN CHOOSE i \in 1..Len(ClaimedSteps) : step \in ClaimedSteps[i]
    ELSE 0

\* C20 (as claimed) - a session that is not resumed goes through EXTRACT,
\* STORE_MEMORIES, DEEP_REFLECT, SUMMARIZE, UPDATE_DESCRIPTIONS, PERSIST and
\* DONE in that order, every step of reflect staying in its phase or
\* entering the next; PERSIST is followed by DONE with no text-generation
\* call and no file written in between.
C20_PersistIsFinalStep ==
    [][(Phase(pc) \in 1..6 /\ pc' # "DEAD")
        => (Phase(pc') \in {Phase(pc), Phase(pc) + 1}
            /\ (Phase(pc) = 6 => (cnt'.llm = cnt.llm /\ refFiles' = refFiles)))]_vars

\* C21 - no step of a session, the steps that end it with an exception or
\* an interruption included, changes a blob in the snapshot directory of an
\* earlier session, and LMRRAG.load_from_file of each of these directories
\* still returns True with the records it held.
C21_EarlierSnapshotsKept ==
    [][\A s \in Sessions : s < session =>
          /\ snap'[s] = snap[s]
          /\ \A w \in Subjects :
                /\ LoadLayers(EmptyLMRRAG, snap'[s][w]).ok
                /\ LoadLayers(EmptyLMRRAG, snap'[s][w]).lm
                     = LoadLayers(EmptyLMRRAG, snap[s][w]).lm]_vars

\* the second session died while its own snapshot was half written, the
\* first session's snapshot holding records
C21_Witness ==
    /\ pc = "DEAD"
    /\ session = 1
    /\ snap[1]["self"]["facts"].kind # "missing"
    /\ snap[1]["counterpart"]["deep_reflections"].kind # "pickle"
    /\ LoadLayers(EmptyLMRRAG, snap[0]["self"]).ok
    /\ StoreLen(LoadLayers(EmptyLMRRAG, snap[0]["self"]).lm["facts"]) > 0

\* C22 (as claimed) - the current description an _update_descriptions call
\* puts in its prompt is the initial description in the first session and,
\* in every later session, the description the same call produced in the
\* session before, for the self and for the counterpart description.
C22_DescriptionsAreRunning ==
    local.response.step \in {"UPDATE_SELF", "UPDATE_COUNTERPART"}
        => local.sent = (IF session = 0 THEN InitialDescription ELSE session - 1)

\* how many of the first `done` add calls of STORE (add_facts and
\* add_reflections of the self LMRRAG, then of the counterpart LMRRAG, one
\* record a call) went to store (w, layer)
StoreCallsTo(w, layer, done) ==
    LET first == IF layer = "deep_reflections" THEN done
                 ELSE (IF w = "self" THEN 0 ELSE 2 * NumFacts)
                      + (IF layer = "facts" THEN 0 ELSE NumFacts)
    IN  Max(0, Min(NumFacts, done - first))

\* C23 - each add call changes one store only.  Of the add_facts and
\* add_reflections calls STORE got through, each appended its records to
\* the facts, respectively reflections, store of the LMRRAG it was made on;
\* an add_deep_reflections call of ANSWER appended its record to the
\* deep_reflections store of its LMRRAG; every other store of the two
\* LMRRAGs is as it was.
C23_AddRoutesToOneLayer ==
    [][/\ pc = "STORE" =>
            \A w \in Subjects, layer \in LayerSet :
                LET n == StoreCallsTo(w, layer, cnt'.appends - cnt.appends)
                    text == IF layer = "facts" THEN FactText ELSE ReflectionText
                IN  /\ StoreLen(rag'[w][layer]) = StoreLen(rag[w][layer]) + n
                    /\ StoreHead(rag'[w][layer], StoreLen(rag[w][layer]))
                           = rag[w][layer]
                    /\ \A i \in 1..n :
                           rag'[w][layer].memories[StoreLen(rag[w][layer]) + i]
                               = text
       /\ pc \in {"ANSWER_SELF", "ANSWER_COUNTERPART"} =>
            \A w \in Subjects, layer \in LayerSet :
                IF w = SubjectOf(pc) /\ layer = "deep_reflections"
                THEN /\ StoreLen(rag'[w][layer])
                          = StoreLen(rag[w][layer]) + cnt'.appends - cnt.appends
                     /\ StoreHead(rag'[w][layer], StoreLen(rag[w][layer]))
                          = rag[w][layer]
                ELSE rag'[w][layer] = rag[w][layer]]_vars

\* the second session made the add calls of STORE and then one
\* add_deep_reflections call on the self LMRRAG, each store holding the
\* records of the first session
C23_Witness ==
    /\ session = 1
    /\ cnt.appends = 4 * NumFacts + 1
    /\ pc = "ANSWER_SELF"
    /\ \A w \in Subjects, layer \in LayerSet :
           local.entry[w][layer] # EmptyStore
    /\ StoreLen(rag["self"]["deep_reflections"])
           = StoreLen(local.entry["self"]["deep_reflections"]) + 1
    /\ rag["counterpart"]["deep_reflections"]
           = local.entry["counterpart"]["deep_reflections"]

\* C24 (as claimed) - when the resume check does not return (one of the two
\* loads failed) the six stores are what they were before the check, so
\* that the re-run from EXTRACT appends to the records of the sessions
\* before only.
C24_FailedCheckLeavesStores ==
    [][(pc = "CHECK_RESUME" /\ pc' = "EXTRACT_SELF") => rag' = rag]_vars

\* C25 (as claimed) - when reflect has returned from the resume branch, the
\* agent is in the state in which the session's full run returned: the six
\* stores are the saved ones, config.description and the counterpart
\* description are the descriptions that session's update produced.
C25_ResumeEqualsCompletion ==
    (pc = "DONE" /\ ResumedBoth) =>
        /\ StoresAsSnapshot
        /\ desc.config_description = session
        /\ desc.counterpart_description = session

\* C28 - from the end of PERSIST to the return of reflect, and at the
\* return of a resumed reflect, each of the six stores is what its blob in
\* the session's snapshot directory holds: no record was appended after the
\* save and no saved record is missing from memory.
C28_ReturnedStoresEqualBlobs ==
    (pc \in {"CONSCIOUSNESS", "WRITE_TRANSCRIPT", "DONE"}) =>
        \A w \in Subjects, layer \in LayerSet :
            /\ snap[SnapDir(session)][w][layer].kind = "pickle"
            /\ LoadFromFile(EmptyStore, snap[SnapDir(session)][w][layer]).st
                   = rag[w][layer]

\* the second session ran all its steps and returned, its six stores
\* holding the records of both sessions
C28_Witness ==
    /\ pc = "DONE"
    /\ ~ResumedBoth
    /\ session = 1
    /\ \A w \in Subjects, layer \in LayerSet :
           /\ StoreLen(rag[w][layer]) >= 2
           /\ snap[1][w][layer] = Pickle(rag[w][layer])

\* the dates of a store never go down from a record to the next
DatesAscend(st) ==
    \A i, j \in 1..Len(st.memory_dates) :
        i < j => st.memory_dates[i] <= st.memory_dates[j]

\* C29 - date_int goes up strictly from each session of the loop to the
\* next, across the turn of a year too, and the dates of each of the six
\* stores never go down in insertion order, in every state: also after a
\* session was resumed from its snapshot or run again after a restart.
C29_DatesNeverGoDown ==
    [][/\ \A s \in 0..(4 * NumYears - 2) : DateInt(s) < DateInt(s + 1)
       /\ session' = session + 1 => DateInt(session) < DateInt(session')
       /\ \A w \in Subjects, layer \in LayerSet : DatesAscend(rag'[w][layer])]_vars

\* after a restart the second session runs again on stores that took the
\* records of its half-written snapshot, and has appended its own
C29_Witness ==
    /\ restarts > 0
    /\ session = 1
    /\ pc = "SUMMARIZE"
    /\ loaded["self"]
    /\ ~loaded["counterpart"]
    /\ \E i, j \in 1..StoreLen(rag["self"]["facts"]) :
           /\ rag["self"]["facts"].memory_dates[i] = DateInt(0)
           /\ rag["self"]["facts"].memory_dates[j] = DateInt(1)
    /\ StoreLen(rag["self"]["facts"]) > StoreLen(local.entry["self"]["facts"])

(***************************************************************************)
(* SpecCall: GPT4O.call(conversations, max_retries, initial_wait),         *)
(* llm.py:59-87.  gpt.at is where the call stands: "idle" (no call),       *)
(* "try" (at the head of the for loop), "sleep" (in the except branch,     *)
(* before time.sleep), "returned" or "raised".  gpt.made counts the        *)
(* requests sent to the service, gpt.slept lists the waits, gpt.last is    *)
(* the outcome of the last request.                                        *)
(***************************************************************************)
RECURSIVE Pow2(_)
Pow2(n) == IF n = 0 THEN 1 ELSE 2 * Pow2(n - 1)

NoGpt ==
    [at |-> "idle", max_retries |-> 0, initial_wait |-> 0, attempt |-> 0,
     made |-> 0, slept |-> <<>>, last |-> "none", ret |-> "none"]

CallInit == gpt = NoGpt

\* (mutant of AfterFailure) the last failed attempt is followed by a wait too
AfterFailure_AlwaysSleep(attempt, max_retries) == "sleep"

\* the except branch: return None after the last attempt, else wait
AfterFailure(attempt, max_retries) ==
    IF attempt = max_retries - 1 THEN "returned" ELSE "sleep"

\* wait_time = initial_wait * (2 ** attempt)
WaitTime(initial_wait, attempt) == initial_wait * Pow2(attempt)

\* llm_obj.call(convos, max_retries, initial_wait) is entered
CallStart ==
    /\ gpt.at = "idle"
    /\ \E m \in 0..MaxRetries, w \in 0..MaxWait :
          gpt' = [NoGpt EXCEPT !.at = "try", !.max_retries = m,
                               !.initial_wait = w]
    /\ UNCHANGED notCall

\* one turn of the for loop up to the return or the except branch: the
\* request is answered (its content is returned) or raises an Exception
CallAttempt ==
    /\ gpt.at = "try"
    /\ gpt.attempt < gpt.max_retries
    /\ \E outcome \in {"content", "exception"} :
          gpt' = [gpt EXCEPT
                    !.made = @ + 1,
                    !.last = outcome,
                    !.at = IF outcome = "content" THEN "returned"
                           ELSE AfterFailure(gpt.attempt, gpt.max_retries),
                    !.ret = IF outcome = "content" THEN "content"
                            ELSE IF AfterFailure(gpt.attempt, gpt.max_retries)
                                      = "returned"
                              THEN "None"
                            ELSE @]
    /\ UNCHANGED notCall

\* time.sleep(wait_time), then the next turn of the loop
CallSleep ==
    /\ gpt.at = "sleep"
    /\ gpt' = [gpt EXCEPT
                 !.slept = Append(@, WaitTime(gpt.initial_wait, gpt.attempt)),
                 !.attempt = @ + 1,
                 !.at = "try"]
    /\ UNCHANGED notCall

\* range(max_retries) is used up without a return: the method ends and the
\* call evaluates to None
CallFallThrough ==
    /\ gpt.at = "try"
    /\ gpt.attempt >= gpt.max_retries
    /\ gpt' = [gpt EXCEPT !.at = "returned", !.ret = "None"]
    /\ UNCHANGED notCall

\* the caller has the result
CallReturn ==
    /\ gpt.at = "returned"
    /\ gpt' = NoGpt
    /\ UNCHANGED notCall

CallNext ==
    \/ CallStart
    \/ CallAttempt
    \/ CallSleep
    \/ CallFallThrough
    \/ CallReturn

\* what holds of a call at every point
CallWithinBudget ==
    /\ gpt.at # "raised"
    /\ gpt.made <= gpt.max_retries
    /\ gpt.at = "returned" =>
          /\ gpt.ret = "content" =>
                 /\ gpt.last = "content"
                 /\ Len(gpt.slept) = gpt.made - 1
          /\ gpt.ret = "None" =>
                 /\ gpt.last # "content"
                 /\ gpt.made = gpt.max_retries
                 /\ Len(gpt.slept) = Max(0, gpt.made - 1)
          /\ gpt.ret \in {"content", "None"}

\* C30 - a GPT4O.call ends, having sent at most max_retries requests: it
\* returns the content of the first request that was answered and sends no
\* request after it, returns None when the max_retries-th request failed,
\* has waited once between two requests and not after the last, and no
\* exception leaves it.
C30_CallEndsWithinRetries ==
    /\ []CallWithinBudget
    /\ [][gpt.last = "content" => gpt'.made \in {gpt.made, 0}]_vars
    /\ (gpt.at = "try") ~> (gpt.at = "returned")

\* a call with max_retries = 3 returned None after three failed requests
\* and two waits
C30_Witness ==
    /\ gpt.at = "returned"
    /\ gpt.ret = "None"
    /\ gpt.max_retries = 3
    /\ gpt.made = 3
    /\ gpt.initial_wait = 1
    /\ gpt.slept = <<1, 2>>

(***************************************************************************)
(* The specifications.  Each starts from the state after construction and  *)
(* takes the steps of its own part of the program.                         *)
(***************************************************************************)
Init == StoreInit /\ FileInit /\ CallInit /\ LayeredInit /\ AgentInit

SpecStore == Init /\ [][StoreNext]_vars

SpecFile == Init /\ [][FileNext]_vars

SpecLayered == Init /\ [][LayeredNext]_vars

Spec == Init /\ [][AgentNext]_vars

\* an attempt ends (the service answers or the client raises), time.sleep
\* returns and the loop goes on: a call in progress takes its next step
SpecCall ==
    /\ Init
    /\ [][CallNext]_vars
    /\ WF_vars(CallAttempt)
    /\ WF_vars(CallSleep)
    /\ WF_vars(CallFallThrough)
====
